---- MODULE Spec2Model ----
(***************************************************************************)
(* Object-model registry, compatibility binder, extension binder and the   *)
(* asynchronous extension dispatcher of wicked (src/dbus-objects/model.c), *)
(* and the configuration loader (src/config.c).                            *)
(***************************************************************************)
EXTENDS Integers, Sequences, FiniteSets, TLC

\* ------------------------------------------------------------------ bounds
MaxClass == 3        \* number of class descriptors
MaxRegistered == 2   \* registry capacity used by the model (NI_DBUS_SERVICES_MAX scaled down)
MaxBinds == 2        \* calls of ni_objectmodel_bind_compatible_interfaces per run
MaxCalls == 2        \* incoming method calls per run
MaxPaths == 4        \* names the temp directory can hold
MaxServerPreferences == 2   \* capacity of dhcp->preferred_server[] (NI_DHCP_SERVER_PREFERENCES_MAX, scaled down)
MaxChildren == 2     \* children of an <extension> element
MaxTargets == 3      \* children of an update-target element

\* A NULL pointer
NULL == 0

\* Class descriptors are 1..MaxClass; a class pointer is a descriptor or NULL.
Classes == 1..MaxClass
ClassPtr == {NULL} \cup Classes

\* Service descriptors (static objects of the program, identified by address)
Services == {"S1", "S2"}

\* Objects of the dbus object tree
Objects == {"obj"}

VARIABLES
    superclass,                       \* class->superclass of every class descriptor
    compatible,                       \* service->compatible of every service descriptor
    objClass,                         \* object->class of every object
    ni_objectmodel_service_registry,  \* .services[0 .. count-1]
    ni_objectmodel_class_registry,    \* .class[0 .. count-1]
    interfaces,                       \* per object: the services handed to ni_dbus_object_register_service, in call order
    binds,                            \* number of bind calls made so far
    ni_global_config,                 \* ni_global.config
    methods,                          \* service->methods of every service descriptor
    calls,                            \* every incoming method call and what was done for it
    fs,                               \* the files of the temp directory
    document,                         \* the configuration file as xml_document_read finds it
    parsed,                           \* what ni_config_parse returned for it
    capabilities,                     \* what ni_system_update_capabilities() returns on this system
    op                                \* the last operation and what it returned

vars == <<superclass, compatible, objClass, ni_objectmodel_service_registry,
          ni_objectmodel_class_registry, interfaces, binds,
          ni_global_config, methods, calls, fs, document, parsed, capabilities, op>>

bindStatic == <<superclass, compatible, objClass, ni_objectmodel_class_registry>>

bindVars == <<superclass, compatible, objClass, ni_objectmodel_class_registry, interfaces, binds>>

callVars == <<calls, fs>>

loaderVars == <<document, parsed, capabilities>>

extVars == <<ni_global_config, methods, calls, fs>>

\* ------------------------------------------------------------ helpers
Range(s) == {s[i] : i \in 1..Len(s)}

Count(s, x) == Cardinality({i \in 1..Len(s) : s[i] = x})

\* --------------------------------------------- extension configuration

\* An extension (ni_extension_t) is a record [name, type, supported_af,
\* pid_file_path, actions, environment]; an action (ni_script_action_t) is
\* [name, command].  A configuration (ni_config_t) holds one extension list
\* per category.  List positions stand for pointers, 0 for NULL.

\* All extensions of a configuration, in category order.
ConfigExtensions(conf) ==
    conf.addrconf_extensions \o conf.linktype_extensions \o conf.api_extensions

\* First position of list whose name is name, NULL when there is none.
FirstByName(list, name) ==
    LET hits == {i \in 1..Len(list) : list[i].name = name}
    IN IF hits = {} THEN NULL ELSE CHOOSE i \in hits : \A j \in hits : i <= j

\* ni_config_find_extension(conf, interface): the extension named like the interface
ni_config_find_extension(conf, interface) ==
    FirstByName(ConfigExtensions(conf), interface)

\* ni_extension_script_find(extension, name): the first action named name
ni_extension_script_find(extension, name) ==
    FirstByName(extension.actions, name)

\* ------------------------------------------------ configuration loader

\* A string pointer that is NULL
NilStr == "(null)"

\* An XML node (xml_node_t): name, attributes as <<name, value>> pairs,
\* children in document order, character data.
XmlNode(name, attrs, children) ==
    [name |-> name, attrs |-> attrs, children |-> children, cdata |-> NilStr]

\* xml_node_get_child(node, name): the position of the first child of that
\* name, NULL when there is none
xml_node_get_child(node, name) ==
    FirstByName(node.children, name)

\* xml_node_get_attr(node, name): the attribute's value, NilStr when it is not set
xml_node_get_attr(node, name) ==
    LET hits == {i \in 1..Len(node.attrs) : node.attrs[i][1] = name}
    IN IF hits = {} THEN NilStr
       ELSE node.attrs[CHOOSE i \in hits : \A j \in hits : i <= j][2]

\* Bit masks (unsigned int) are sets of bit positions; ~0 is every position.
AllBits == 0..31
NI_AF_MASK_IPV4 == {0}
NI_AF_MASK_IPV6 == {1}

\* xpath_format_parse(expr) fails on an expression it cannot parse.
XPathParses(expr) == expr \notin {"%{", NilStr}

\* ni_address_parse(&address, string, AF_UNSPEC) fails on a string that is no address.
AddressParses(string) == string \in {"10.0.0.1", "10.0.0.2"}

\* strtol(string, NULL, 0) for the strings the model uses
StrToL(string) ==
    CASE string = "50" -> 50
      [] string = "100" -> 100
      [] string = "150" -> 150
      [] string = "-5" -> -5
      [] OTHER -> 0

\* strtok(copy, ","): the tokens of a comma-separated list
StrTok(string) ==
    CASE string = "ipv4" -> <<"ipv4">>
      [] string = "ipv6" -> <<"ipv6">>
      [] string = "ipv4,ipv6" -> <<"ipv4", "ipv6">>
      [] string = "ipv4,ipx" -> <<"ipv4", "ipx">>
      [] string = "ipx" -> <<"ipx">>
      [] string = "ipv6,ipv4" -> <<"ipv6", "ipv4">>
      [] string = ",ipv6" -> <<"ipv6">>
      [] string = "ipv4,ipv4" -> <<"ipv4", "ipv4">>
      [] OTHER -> <<>>

\* ni_addrconf_name_to_update_target(name): the target's number, -1 for an unknown name
ni_addrconf_name_to_update_target(name) ==
    CASE name = "default-route" -> 0
      [] name = "hostname" -> 1
      [] name = "resolver" -> 2
      [] OTHER -> -1

\* map_type(attrval) of a category: ni_addrconf_name_to_type,
\* ni_linktype_name_to_type; -1 for a name that is not recognized
MapType(exclass, attrval) ==
    IF exclass = "addrconf" /\ attrval = "dhcp" THEN 1
    ELSE IF exclass = "linktype" /\ attrval = "vlan" THEN 2
    ELSE -1

\* ni_config_parse_xpath(varp, expr), lines 380-392
ni_config_parse_xpath(expr) == IF XPathParses(expr) THEN 0 ELSE -1

\* ni_config_parse_update_targets(update_mask, node), lines 226-247
RECURSIVE UpdateTargetsLoop_Assign(_, _, _)
UpdateTargetsLoop_Assign(kids, i, mask) ==
    IF i > Len(kids) THEN mask
    ELSE UpdateTargetsLoop_Assign(kids, i + 1,
            IF kids[i].name = "all" THEN AllBits
            ELSE IF kids[i].name = "none" THEN {}
            ELSE IF ni_addrconf_name_to_update_target(kids[i].name) >= 0
                 THEN {ni_addrconf_name_to_update_target(kids[i].name)}
                 ELSE mask)

RECURSIVE UpdateTargetsLoop(_, _, _)
UpdateTargetsLoop(kids, i, mask) ==
    IF i > Len(kids) THEN mask
    ELSE UpdateTargetsLoop(kids, i + 1,
            IF kids[i].name = "all" THEN AllBits
            ELSE IF kids[i].name = "none" THEN {}
            ELSE IF ni_addrconf_name_to_update_target(kids[i].name) >= 0
                 THEN mask \cup {ni_addrconf_name_to_update_target(kids[i].name)}
                 ELSE mask)

ni_config_parse_update_targets(mask, node) ==
    [rv |-> 0, mask |-> UpdateTargetsLoop(node.children, 1, mask)]

\* Lines 203-218: the weight of one <prefer-server> element
PreferenceWeight_NoClamp(child) ==
    LET attrval == xml_node_get_attr(child, "weight")
    IN IF attrval = NilStr THEN 100
       ELSE IF attrval = "always" THEN 100
       ELSE IF attrval = "never" THEN -1
       ELSE StrToL(attrval)

PreferenceWeight(child) ==
    LET attrval == xml_node_get_attr(child, "weight")
    IN IF attrval = NilStr THEN 100
       ELSE IF attrval = "always" THEN 100
       ELSE IF attrval = "never" THEN -1
       ELSE IF StrToL(attrval) > 100 THEN 100
       ELSE StrToL(attrval)

\* ni_config_parse_addrconf_dhcp(dhcp, node), lines 172-224
RECURSIVE DhcpLoop(_, _, _)
DhcpLoop(kids, i, dhcp) ==
    IF i > Len(kids) THEN [rv |-> 0, dhcp |-> dhcp]
    ELSE
    LET child == kids[i]
        d1 == IF child.name = "vendor-class"
              THEN [dhcp EXCEPT !.vendor_class = child.cdata] ELSE dhcp
        d2 == IF child.name = "lease-time" /\ child.cdata # NilStr
              THEN [d1 EXCEPT !.lease_time = StrToL(child.cdata)] ELSE d1
        d3 == IF child.name = "ignore-server" /\ xml_node_get_attr(child, "ip") # NilStr
              THEN [d2 EXCEPT !.ignore_servers = Append(@, xml_node_get_attr(child, "ip"))]
              ELSE d2
        ip == xml_node_get_attr(child, "ip")
    IN
    IF child.name = "prefer-server" /\ ip # NilStr
    THEN IF d3.num_preferred_servers >= MaxServerPreferences
         THEN DhcpLoop(kids, i + 1, d3)          \* too many: continue
         ELSE LET d4 == [d3 EXCEPT !.num_preferred_servers = @ + 1]
              IN IF ~AddressParses(ip)
                 THEN [rv |-> -1, dhcp |-> d4]
                 ELSE DhcpLoop(kids, i + 1,
                        [d4 EXCEPT !.preferred_server =
                            Append(@, [address |-> ip, weight |-> PreferenceWeight(child)])])
    ELSE IF child.name = "allow-update"
    THEN DhcpLoop(kids, i + 1,
            [d3 EXCEPT !.allow_update = ni_config_parse_update_targets(@, child).mask])
    ELSE DhcpLoop(kids, i + 1, d3)

ni_config_parse_addrconf_dhcp(dhcp, node) == DhcpLoop(node.children, 1, dhcp)

\* Lines 327-341: the family attribute of an extension element
RECURSIVE FamilyLoop_LastWins(_, _, _)
FamilyLoop_LastWins(tokens, i, af) ==
    IF i > Len(tokens) THEN af
    ELSE FamilyLoop_LastWins(tokens, i + 1,
            IF tokens[i] = "ipv4" THEN NI_AF_MASK_IPV4
            ELSE IF tokens[i] = "ipv6" THEN NI_AF_MASK_IPV6
            ELSE af)

RECURSIVE FamilyLoop(_, _, _)
FamilyLoop(tokens, i, af) ==
    IF i > Len(tokens) THEN af
    ELSE FamilyLoop(tokens, i + 1,
            (IF tokens[i] = "ipv4" THEN af \cup NI_AF_MASK_IPV4 ELSE af)
            \cup (IF tokens[i] = "ipv6" THEN NI_AF_MASK_IPV6 ELSE {}))

\* ni_extension_new(list, name, type): a new extension with nothing set
ni_extension_new(name, type) ==
    [name |-> name, type |-> type, supported_af |-> {}, pid_file_path |-> NilStr,
     actions |-> <<>>, environment |-> <<>>]

\* Lines 349-374: the children of an extension element
RECURSIVE ExtensionChildrenLoop(_, _, _)
ExtensionChildrenLoop(kids, i, ex) ==
    IF i > Len(kids) THEN [rv |-> 0, ex |-> ex]
    ELSE
    LET child == kids[i] IN
    IF child.name = "action"
    THEN LET name == xml_node_get_attr(child, "name")
             command == xml_node_get_attr(child, "command")
         IN IF name = NilStr THEN [rv |-> -1, ex |-> ex]
            ELSE IF command # NilStr /\ ni_config_parse_xpath(command) < 0
            THEN [rv |-> -1,
                  ex |-> [ex EXCEPT !.actions = Append(@, [name |-> name, command |-> NilStr])]]
            ELSE ExtensionChildrenLoop(kids, i + 1,
                    [ex EXCEPT !.actions = Append(@, [name |-> name, command |-> command])])
    ELSE IF child.name = "environment"
    THEN LET putenv == xml_node_get_attr(child, "putenv")
         IN IF putenv = NilStr THEN [rv |-> -1, ex |-> ex]
            ELSE IF ni_config_parse_xpath(putenv) < 0 THEN [rv |-> -1, ex |-> ex]
            ELSE ExtensionChildrenLoop(kids, i + 1,
                    [ex EXCEPT !.environment = Append(@, putenv)])
    ELSE ExtensionChildrenLoop(kids, i + 1, ex)

\* Lines 293-375: the elements of one category; list is the extension list built so far.
RECURSIVE ExtensionsLoop(_, _, _, _)
ExtensionsLoop(nodes, i, exclass, list) ==
    IF i > Len(nodes) THEN [rv |-> 0, list |-> list]
    ELSE
    LET node == nodes[i]
        name == xml_node_get_attr(node, "name")
        typeattr == xml_node_get_attr(node, "type")
        type == IF exclass = "api" THEN 0 ELSE MapType(exclass, typeattr)
        family == xml_node_get_attr(node, "family")
        pidfile == xml_node_get_child(node, "pidfile")
        pidpath == IF pidfile = NULL THEN NilStr
                   ELSE xml_node_get_attr(node.children[pidfile], "path")
        ex0 == ni_extension_new(name, type)
        ex1 == [ex0 EXCEPT !.supported_af =
                    IF family # NilStr THEN FamilyLoop(StrTok(family), 1, @) ELSE AllBits]
        ex2 == [ex1 EXCEPT !.pid_file_path = IF XPathParses(pidpath) THEN pidpath ELSE NilStr]
        kids == ExtensionChildrenLoop(node.children, 1, ex2)
    IN
    IF node.name # "extension" THEN ExtensionsLoop(nodes, i + 1, exclass, list)
    ELSE IF name = NilStr THEN [rv |-> -1, list |-> list]
    ELSE IF exclass # "api" /\ typeattr = NilStr THEN [rv |-> -1, list |-> list]
    ELSE IF exclass # "api" /\ type < 0 THEN ExtensionsLoop(nodes, i + 1, exclass, list)
    ELSE IF pidpath # NilStr /\ ni_config_parse_xpath(pidpath) < 0
    THEN [rv |-> -1, list |-> Append(list, ex1)]
    ELSE IF kids.rv < 0 THEN [rv |-> -1, list |-> Append(list, kids.ex)]
    ELSE ExtensionsLoop(nodes, i + 1, exclass, Append(list, kids.ex))

\* ni_config_parse_extensions(list, node, exclass, map_type), lines 282-378
ni_config_parse_extensions(list, node, exclass) ==
    LET category == xml_node_get_child(node, exclass)
    IN IF category = NULL THEN [rv |-> 0, list |-> list]
       ELSE ExtensionsLoop(node.children[category].children, 1, exclass, list)

\* ni_config_new(), lines 31-50
ni_config_new ==
    [addrconf |-> [default_allow_update |-> AllBits,
                   dhcp |-> [allow_update |-> AllBits, vendor_class |-> NilStr,
                             lease_time |-> 0, ignore_servers |-> <<>>,
                             preferred_server |-> <<>>, num_preferred_servers |-> 0]],
     addrconf_extensions |-> <<>>, linktype_extensions |-> <<>>, api_extensions |-> <<>>]

\* Lines 104-115: the children of <addrconf>
RECURSIVE AddrconfLoop(_, _, _)
AddrconfLoop(kids, i, addrconf) ==
    IF i > Len(kids) THEN [rv |-> 0, addrconf |-> addrconf]
    ELSE
    LET a1 == IF kids[i].name = "default-allow-update"
              THEN [addrconf EXCEPT !.default_allow_update =
                       ni_config_parse_update_targets(@, kids[i]).mask]
              ELSE addrconf
        d == ni_config_parse_addrconf_dhcp(a1.dhcp, kids[i])
    IN IF kids[i].name = "dhcp"
       THEN IF d.rv < 0 THEN [rv |-> -1, addrconf |-> [a1 EXCEPT !.dhcp = d.dhcp]]
            ELSE AddrconfLoop(kids, i + 1, [a1 EXCEPT !.dhcp = d.dhcp])
       ELSE AddrconfLoop(kids, i + 1, a1)

\* What ni_config_parse returns: the pointer (NULL or not), and the
\* configuration object it built, if it built one, freed or not.
Failed(built, object) ==
    [conf |-> NULL, built |-> built, freed |-> built, object |-> object]

Parsed(object) ==
    [conf |-> 1, built |-> TRUE, freed |-> FALSE, object |-> object]

\* Before the program has loaded a configuration file
NotParsed == [done |-> FALSE] @@ Failed(FALSE, ni_config_new)

\* A file that cannot be read
NoDocument == [readable |-> FALSE, root |-> XmlNode("", <<>>, <<>>)]

\* Lines 120-123: the three extension categories, in order, stopping at the
\* first that fails
ParseCategories_ApiIgnored(conf, node) ==
    LET a == ni_config_parse_extensions(conf.addrconf_extensions, node, "addrconf")
        l == ni_config_parse_extensions(conf.linktype_extensions, node, "linktype")
        p == ni_config_parse_extensions(conf.api_extensions, node, "api")
        c1 == [conf EXCEPT !.addrconf_extensions = a.list]
        c2 == [c1 EXCEPT !.linktype_extensions = l.list]
        c3 == [c2 EXCEPT !.api_extensions = p.list]
    IN IF a.rv < 0 THEN [rv |-> -1, conf |-> c1]
       ELSE IF l.rv < 0 THEN [rv |-> -1, conf |-> c2]
       ELSE [rv |-> 0, conf |-> c3]

ParseCategories(conf, node) ==
    LET a == ni_config_parse_extensions(conf.addrconf_extensions, node, "addrconf")
        l == ni_config_parse_extensions(conf.linktype_extensions, node, "linktype")
        p == ni_config_parse_extensions(conf.api_extensions, node, "api")
        c1 == [conf EXCEPT !.addrconf_extensions = a.list]
        c2 == [c1 EXCEPT !.linktype_extensions = l.list]
        c3 == [c2 EXCEPT !.api_extensions = p.list]
    IN IF a.rv < 0 THEN [rv |-> -1, conf |-> c1]
       ELSE IF l.rv < 0 THEN [rv |-> -1, conf |-> c2]
       ELSE IF p.rv < 0 THEN [rv |-> -1, conf |-> c3]
       ELSE [rv |-> 0, conf |-> c3]

\* ni_config_parse(filename), lines 63-170.  doc is what
\* xml_document_read finds: readable or not, and the root node; caps is
\* ni_system_update_capabilities().
ni_config_parse(doc, caps) ==
    IF ~doc.readable THEN Failed(FALSE, ni_config_new)
    ELSE
    LET config == xml_node_get_child(doc.root, "config") IN
    IF config = NULL THEN Failed(FALSE, ni_config_new)
    ELSE
    LET node == doc.root.children[config]
        conf == ni_config_new
        \* ni_config_parse_afinfo and ni_config_parse_fslocation always return 0
        child == xml_node_get_child(node, "addrconf")
        a == IF child = NULL THEN [rv |-> 0, addrconf |-> conf.addrconf]
             ELSE AddrconfLoop(node.children[child].children, 1, conf.addrconf)
        conf1 == [conf EXCEPT !.addrconf = a.addrconf]
        conf2 == [conf1 EXCEPT !.addrconf.default_allow_update = @ \cap caps]
        e == ParseCategories(conf2, node)
    IN IF a.rv < 0 THEN Failed(TRUE, conf1)
       ELSE IF e.rv < 0 THEN Failed(TRUE, e.conf)
       ELSE Parsed(e.conf)

\* ni_config_addrconf_update_mask(conf, type), lines 418-431
ni_config_addrconf_update_mask_DhcpOnly(conf, type) ==
    IF type = "NI_ADDRCONF_DHCP" THEN conf.addrconf.dhcp.allow_update
    ELSE conf.addrconf.default_allow_update

ni_config_addrconf_update_mask(conf, type) ==
    LET update_mask == conf.addrconf.default_allow_update
    IN IF type = "NI_ADDRCONF_DHCP"
       THEN update_mask \cap conf.addrconf.dhcp.allow_update
       ELSE update_mask

\* ------------------------------------------------- method descriptors

\* ni_dbus_method_t: name, handler, async_handler, async_completion.
Method(name, handler) ==
    [name |-> name, handler |-> handler, async_handler |-> "NULL", async_completion |-> "NULL"]

\* service->name of the service descriptors
svcName == [s \in Services |-> IF s = "S1" THEN "foo" ELSE "qux"]

\* service->methods of the service descriptors as the program starts with them
StaticMethods ==
    [s \in Services |->
        IF s = "S1"
        THEN <<Method("bar", "NULL"), Method("create", "builtin"), Method("baz", "NULL")>>
        ELSE <<Method("bar", "NULL")>>]

\* ------------------------------------------------- calls, files, processes

Calls == 1..MaxCalls
Paths == 1..MaxPaths

NoFile == [exists |-> FALSE, data |-> <<>>]
File(data) == [exists |-> TRUE, data |-> data]

NoEnv == [WICKED_ARGFILE |-> NULL, WICKED_RETFILE |-> NULL]

\* What the model records of one incoming call (ni_dbus_message_t *call).
NewCall ==
    [stage     |-> "idle",       \* idle, failed, spawned, exited, completed
     via       |-> "",           \* who answered: extension, builtin, nohandler
     afterBind |-> FALSE,        \* whether ni_objectmodel_bind_extensions had run before
     interface |-> "",           \* dbus_message_get_interface(call)
     method    |-> "",           \* method->name
     rv        |-> FALSE,        \* what the async handler returned
     replies   |-> <<>>,         \* messages sent on the connection for this call
     process   |-> "none",       \* the ni_process_instance_t: none, new, running, exited, freed
     environ   |-> NoEnv,        \* the environment set on the process instance
     created   |-> <<>>,         \* names ni_mkstemp created for this call
     launched  |-> 0,            \* processes started for this call
     launchFs  |-> [p \in Paths |-> NoFile],   \* the files as they were at launch
     status    |-> "none"]       \* exit status of the process

ErrorReply(name, text) == [type |-> "error", name |-> name, text |-> text]
MethodReturn == [type |-> "method_return", name |-> "", text |-> ""]

\* The ways the subprocess can end
ExitStatuses == {"exit0", "exit1", "signal"}

\* --------------------------------------------- compatibility binder

\* The inner loop of the binder, lines 130-135:
\*   for (class = object->class; class; class = class->superclass)
\*       if (service->compatible == class) { register; break; }
\* TRUE when the loop reaches the register call.
ClassWalk_NoSuperclass(sup, comp, class) ==
    IF class = NULL THEN FALSE
    ELSE comp = class

RECURSIVE ClassWalk(_, _, _)
ClassWalk(sup, comp, class) ==
    IF class = NULL THEN FALSE
    ELSE IF comp = class THEN TRUE
    ELSE ClassWalk(sup, comp, sup[class])

\* The outer loop, lines 123-136: i runs over the registry, every hit appends
\* one ni_dbus_object_register_service(object, service) call.
RECURSIVE BindLoop(_, _, _, _, _, _)
BindLoop(i, reg, sup, comp, class, attached) ==
    IF i > Len(reg) THEN attached
    ELSE BindLoop(i + 1, reg, sup, comp, class,
                  IF ClassWalk(sup, comp[reg[i]], class)
                  THEN Append(attached, reg[i])
                  ELSE attached)

\* The class check of lines 117-120: TRUE when the binder refuses the object.
ObjectWithoutClass_Ignored(class) == FALSE

ObjectWithoutClass(class) == class = NULL

\* ni_objectmodel_bind_compatible_interfaces(object)
ni_objectmodel_bind_compatible_interfaces(o) ==
    /\ binds < MaxBinds
    /\ binds' = binds + 1
    /\ IF ObjectWithoutClass(objClass[o])
       THEN /\ interfaces' = interfaces
            /\ op' = [name |-> "bind", object |-> o, rv |-> FALSE]
       ELSE /\ interfaces' = [interfaces EXCEPT ![o] =
                    BindLoop(1, ni_objectmodel_service_registry, superclass,
                             compatible, objClass[o], interfaces[o])]
            /\ op' = [name |-> "bind", object |-> o, rv |-> TRUE]
    /\ UNCHANGED <<loaderVars, bindStatic, ni_objectmodel_service_registry, extVars>>

\* ------------------------------------------------- service registry

\* ni_objectmodel_register_service(service): no lookup, the pointer is stored
\* at index count and count is incremented.
ni_objectmodel_register_service(s) ==
    /\ Len(ni_objectmodel_service_registry) < MaxRegistered    \* ni_assert(index < NI_DBUS_SERVICES_MAX)
    /\ ni_objectmodel_service_registry' = Append(ni_objectmodel_service_registry, s)
    /\ op' = [name |-> "register_service", object |-> "", rv |-> TRUE]
    /\ UNCHANGED <<loaderVars, bindVars, extVars>>

\* class->name of the class descriptors
className == [c \in Classes |-> "class" \o ToString(c)]

\* ni_objectmodel_register_class(class): no lookup, the pointer is stored at
\* index count and count is incremented.
ni_objectmodel_register_class(c) ==
    /\ className[c] # NilStr                                  \* ni_assert(class->name)
    /\ Len(ni_objectmodel_class_registry) < MaxRegistered     \* ni_assert(index < NI_DBUS_CLASSES_MAX)
    /\ ni_objectmodel_class_registry' = Append(ni_objectmodel_class_registry, c)
    /\ op' = [name |-> "register_class", object |-> "", rv |-> TRUE]
    /\ UNCHANGED <<loaderVars, superclass, compatible, objClass, interfaces, binds,
                   ni_objectmodel_service_registry, extVars>>

\* ---------------------------------------------------- extension binder

AsyncCall == "ni_objectmodel_extension_call"
AsyncCompletionHandler == "ni_objectmodel_extension_completion"

\* Lines 453-462 for one method of a service whose extension was found
BindMethod_NoHandlerCheck(extension, m) ==
    IF ni_extension_script_find(extension, m.name) # NULL
    THEN [m EXCEPT !.async_handler = AsyncCall, !.async_completion = AsyncCompletionHandler]
    ELSE m

BindMethod_Chained(extension, m) ==
    IF m.handler # "NULL" THEN m
    ELSE IF ni_extension_script_find(extension, m.name) # NULL
    THEN [m EXCEPT !.async_handler = AsyncCall, !.async_completion = m.async_handler]
    ELSE m

BindMethod(extension, m) ==
    IF m.handler # "NULL" THEN m
    ELSE IF ni_extension_script_find(extension, m.name) # NULL
    THEN [m EXCEPT !.async_handler = AsyncCall, !.async_completion = AsyncCompletionHandler]
    ELSE m

\* Lines 443-464: i runs over the registry; a service without extension is skipped.
RECURSIVE BindExtensionsLoop(_, _, _, _)
BindExtensionsLoop(i, reg, conf, mt) ==
    IF i > Len(reg) THEN mt
    ELSE LET service == reg[i]
             extension == ni_config_find_extension(conf, svcName[service])
         IN BindExtensionsLoop(i + 1, reg, conf,
                IF extension = NULL THEN mt
                ELSE [mt EXCEPT ![service] =
                        [k \in 1..Len(mt[service]) |->
                            BindMethod(ConfigExtensions(conf)[extension], mt[service][k])]])

\* ni_objectmodel_bind_extensions()
ni_objectmodel_bind_extensions ==
    /\ methods' = BindExtensionsLoop(1, ni_objectmodel_service_registry, ni_global_config, methods)
    /\ op' = [name |-> "bind_extensions", object |-> "", rv |-> TRUE]
    /\ UNCHANGED <<loaderVars, bindVars, ni_objectmodel_service_registry, ni_global_config, callVars>>

\* ------------------------------------------------ extension dispatcher

\* What the collaborators of one handler run answer: whether
\* dbus_message_marshal succeeds, whether ni_mkstemp creates the argument
\* file, whether ni_file_write succeeds, whether ni_mkstemp creates the return
\* file, and whether ni_dbus_async_server_call_run_command starts the process.
\* An answer that is never asked for is left at FALSE or NULL.
Answer(marshal, mkstemp1, write, mkstemp2, run) ==
    [marshal |-> marshal, mkstemp1 |-> mkstemp1, write |-> write,
     mkstemp2 |-> mkstemp2, run |-> run]

Answers ==
    {Answer(FALSE, FALSE, FALSE, FALSE, FALSE),
     Answer(TRUE, FALSE, FALSE, FALSE, FALSE),
     Answer(TRUE, TRUE, FALSE, FALSE, FALSE),
     Answer(TRUE, TRUE, TRUE, FALSE, FALSE),
     Answer(TRUE, TRUE, TRUE, TRUE, FALSE),
     Answer(TRUE, TRUE, TRUE, TRUE, TRUE)}

\* ni_mkstemp(&tempname) creates a file under a name no existing file has and
\* returns the name, NULL when it fails.  Names are interchangeable: the model
\* takes the least unused one.
Unused(fsys) == {p \in Paths : ~fsys[p].exists}

ni_mkstemp(fsys, succeeds) ==
    IF succeeds /\ Unused(fsys) # {}
    THEN CHOOSE p \in Unused(fsys) : \A q \in Unused(fsys) : p <= q
    ELSE NULL

\* An answer "created" is possible only while an unused name is left.
CanCreate(fsys, succeeds) == succeeds => Unused(fsys) # {}

\* unlink(name)
Unlink(fsys, name) == [fsys EXCEPT ![name] = NoFile]

\* __ni_objectmodel_write_message(msg): the name of the file holding the
\* marshaled call, NULL on failure.  ok tells whether the answers were possible.
ni_objectmodel_write_message_NoUnlink(fsys, msg, ans) ==
    LET tempname == ni_mkstemp(fsys, ans.mkstemp1)
    IN IF ~ans.marshal
       THEN [tempname |-> NULL, fs |-> fsys, created |-> <<>>, ok |-> TRUE]
       ELSE IF tempname = NULL
       THEN [tempname |-> NULL, fs |-> fsys, created |-> <<>>,
             ok |-> CanCreate(fsys, ans.mkstemp1)]
       ELSE IF ~ans.write
       THEN [tempname |-> NULL,
             fs |-> [fsys EXCEPT ![tempname] = File(<<>>)],
             created |-> <<tempname>>, ok |-> TRUE]
       ELSE [tempname |-> tempname,
             fs |-> [fsys EXCEPT ![tempname] = File(msg)],
             created |-> <<tempname>>, ok |-> TRUE]

ni_objectmodel_write_message(fsys, msg, ans) ==
    LET tempname == ni_mkstemp(fsys, ans.mkstemp1)
    IN IF ~ans.marshal
       THEN [tempname |-> NULL, fs |-> fsys, created |-> <<>>, ok |-> TRUE]
       ELSE IF tempname = NULL
       THEN [tempname |-> NULL, fs |-> fsys, created |-> <<>>,
             ok |-> CanCreate(fsys, ans.mkstemp1)]
       ELSE IF ~ans.write
       THEN [tempname |-> NULL,
             fs |-> Unlink([fsys EXCEPT ![tempname] = File(<<>>)], tempname),
             created |-> <<tempname>>, ok |-> TRUE]
       ELSE [tempname |-> tempname,
             fs |-> [fsys EXCEPT ![tempname] = File(msg)],
             created |-> <<tempname>>, ok |-> TRUE]

\* __ni_objectmodel_empty_tempfile(): the name of a new empty file, NULL on failure
ni_objectmodel_empty_tempfile_NoFile(fsys, ans) ==
    LET tempname == ni_mkstemp(fsys, ans.mkstemp2)
    IN IF tempname = NULL
       THEN [tempname |-> NULL, fs |-> fsys, created |-> <<>>,
             ok |-> CanCreate(fsys, ans.mkstemp2)]
       ELSE [tempname |-> tempname, fs |-> fsys,
             created |-> <<tempname>>, ok |-> TRUE]

ni_objectmodel_empty_tempfile_FixedName(fsys, ans) ==
    IF ~ans.mkstemp2
    THEN [tempname |-> NULL, fs |-> fsys, created |-> <<>>, ok |-> TRUE]
    ELSE [tempname |-> MaxPaths,
          fs |-> [fsys EXCEPT ![MaxPaths] = File(<<>>)],
          created |-> <<MaxPaths>>, ok |-> TRUE]

ni_objectmodel_empty_tempfile(fsys, ans) ==
    LET tempname == ni_mkstemp(fsys, ans.mkstemp2)
    IN IF tempname = NULL
       THEN [tempname |-> NULL, fs |-> fsys, created |-> <<>>,
             ok |-> CanCreate(fsys, ans.mkstemp2)]
       ELSE [tempname |-> tempname,
             fs |-> [fsys EXCEPT ![tempname] = File(<<>>)],
             created |-> <<tempname>>, ok |-> TRUE]

\* ni_dbus_connection_send_error / ni_dbus_connection_send_message for this call
Send(call, reply) == [call EXCEPT !.replies = Append(@, reply)]

\* Lines 348-361: which of the two lookups fails, "" when both succeed.
Resolve_NoMethodCheck(conf, interface, method) ==
    IF ni_config_find_extension(conf, interface) = NULL THEN "unknown-interface"
    ELSE ""

Resolve(conf, interface, method) ==
    LET extension == ni_config_find_extension(conf, interface)
    IN IF extension = NULL THEN "unknown-interface"
       ELSE IF ni_extension_script_find(ConfigExtensions(conf)[extension], method) = NULL
            THEN "unknown-method"
            ELSE ""

\* Lines 349-353 and 356-360: the error reply of a failed lookup, return FALSE
ResolveFailure(call, which) ==
    [Send(call, IF which = "unknown-interface"
                THEN ErrorReply("DBUS_ERROR_SERVICE_UNKNOWN", "no/unknown interface")
                ELSE ErrorReply("DBUS_ERROR_FAILED", "no/unknown extension method"))
     EXCEPT !.stage = "failed", !.rv = FALSE]

\* Lines 396-408, the general_failure label: error reply, the process instance
\* is freed, tempname is unlinked if it is set.
GeneralFailure_NoReply(call, fsys, tempname) ==
    [call |-> [call EXCEPT !.stage = "failed", !.rv = FALSE, !.process = "freed"],
     fs |-> IF tempname # NULL THEN Unlink(fsys, tempname) ELSE fsys]

GeneralFailure(call, fsys, tempname) ==
    [call |-> [Send(call, ErrorReply("DBUS_ERROR_FAILED", "general failure when executing method"))
               EXCEPT !.stage = "failed", !.rv = FALSE, !.process = "freed"],
     fs |-> IF tempname # NULL THEN Unlink(fsys, tempname) ELSE fsys]

\* Lines 385-392: the process could not be started
LaunchFailure(call, fsys) ==
    [call |-> [Send(call, ErrorReply("DBUS_ERROR_FAILED", "error executing method"))
               EXCEPT !.stage = "failed", !.rv = FALSE, !.process = "freed"],
     fs |-> fsys]

\* Line 385 succeeding, line 394: the process runs with the environment set on
\* the instance; the handler returns TRUE.
Launched_Replies(call, fsys) ==
    [call |-> [Send(call, MethodReturn)
               EXCEPT !.stage = "spawned", !.rv = TRUE, !.process = "running",
                      !.launched = @ + 1, !.launchFs = fsys],
     fs |-> fsys]

Launched(call, fsys) ==
    [call |-> [call EXCEPT !.stage = "spawned", !.rv = TRUE, !.process = "running",
                           !.launched = @ + 1, !.launchFs = fsys],
     fs |-> fsys]

\* ni_objectmodel_extension_call(connection, object, method, call), lines 336-409.
\* c is the call, interface its interface header, method the method's name.
\* The result is the call's record and the files after the handler returned;
\* ok tells whether the collaborators' answers were possible.
ni_objectmodel_extension_call(conf, fsys, c, call0, interface, method, ans) ==
    LET call == [call0 EXCEPT !.via = "extension", !.interface = interface, !.method = method,
                              !.afterBind = (op.name = "bind_extensions")]
        which == Resolve(conf, interface, method)
    IN
    IF which # ""
    THEN [call |-> ResolveFailure(call, which), fs |-> fsys, ok |-> TRUE]
    ELSE
    LET \* process = ni_process_instance_new(command)
        call1 == [call EXCEPT !.process = "new"]
        \* tempname = __ni_objectmodel_write_message(call)
        w == ni_objectmodel_write_message(fsys, <<c>>, ans)
        call2 == [call1 EXCEPT !.created = @ \o w.created]
    IN
    IF w.tempname = NULL
    THEN GeneralFailure(call2, w.fs, w.tempname) @@ [ok |-> w.ok]
    ELSE
    LET \* setenv WICKED_ARGFILE; ni_string_free(&tempname)
        call3 == [call2 EXCEPT !.environ.WICKED_ARGFILE = w.tempname]
        \* tempname = __ni_objectmodel_empty_tempfile()
        r == ni_objectmodel_empty_tempfile(w.fs, ans)
        call4 == [call3 EXCEPT !.created = @ \o r.created]
    IN
    IF r.tempname = NULL
    THEN GeneralFailure(call4, r.fs, r.tempname) @@ [ok |-> w.ok /\ r.ok]
    ELSE
    LET \* setenv WICKED_RETFILE; ni_string_free(&tempname)
        call5 == [call4 EXCEPT !.environ.WICKED_RETFILE = r.tempname]
    IN
    IF ~ans.run
    THEN LaunchFailure(call5, r.fs) @@ [ok |-> w.ok /\ r.ok]
    ELSE Launched(call5, r.fs) @@ [ok |-> w.ok /\ r.ok]

\* ni_process_exit_status_okay(process)
ni_process_exit_status_okay(status) == status = "exit0"

\* ni_objectmodel_extension_completion(connection, object, method, call, process),
\* lines 411-432: the reply built from the exit status is sent.
ni_objectmodel_extension_completion_AlwaysReturn(call) ==
    [Send(call, MethodReturn) EXCEPT !.stage = "completed"]

ni_objectmodel_extension_completion(call) ==
    [Send(call,
          IF ni_process_exit_status_okay(call.status)
          THEN MethodReturn
          ELSE ErrorReply("DBUS_ERROR_FAILED", "dbus extension script returns error"))
     EXCEPT !.stage = "completed"]

\* A call is handed to the extension-call handler.  Its interface header and
\* method name are whatever the message carries.
HandlerCall(c, interface, method, ans) ==
    LET res == ni_objectmodel_extension_call(ni_global_config, fs, c, calls[c],
                                             interface, method, ans)
    IN /\ calls[c].stage = "idle"
       /\ res.ok
       /\ calls' = [calls EXCEPT ![c] = res.call]
       /\ fs' = res.fs
       /\ UNCHANGED <<loaderVars, bindVars, ni_objectmodel_service_registry, ni_global_config, methods, op>>

\* The server dispatches a call to method k of service s: a built-in handler
\* answers it itself, an async handler is run, a method with neither is
\* answered with an error.
ServerDispatch(c, s, k, ans) ==
    LET m == methods[s][k]
        res == IF m.handler # "NULL"
               THEN [call |-> [Send(calls[c], MethodReturn) EXCEPT
                                  !.via = "builtin", !.stage = "completed",
                                  !.afterBind = (op.name = "bind_extensions"),
                                  !.interface = svcName[s], !.method = m.name],
                     fs |-> fs, ok |-> TRUE]
               ELSE IF m.async_handler = AsyncCall
               THEN ni_objectmodel_extension_call(ni_global_config, fs, c, calls[c],
                                                  svcName[s], m.name, ans)
               ELSE [call |-> [Send(calls[c], ErrorReply("DBUS_ERROR_UNKNOWN_METHOD", "no handler"))
                               EXCEPT !.via = "nohandler", !.stage = "failed",
                                      !.afterBind = (op.name = "bind_extensions"),
                                      !.interface = svcName[s], !.method = m.name],
                     fs |-> fs, ok |-> TRUE]
    IN /\ calls[c].stage = "idle"
       /\ s \in Range(ni_objectmodel_service_registry)
       /\ res.ok
       /\ calls' = [calls EXCEPT ![c] = res.call]
       /\ fs' = res.fs
       /\ UNCHANGED <<loaderVars, bindVars, ni_objectmodel_service_registry, ni_global_config, methods, op>>

\* The subprocess of a spawned call ends.
ProcessExit(c, status) ==
    /\ calls[c].stage = "spawned"
    /\ calls' = [calls EXCEPT ![c].stage = "exited", ![c].process = "exited", ![c].status = status]
    /\ UNCHANGED <<loaderVars, bindVars, ni_objectmodel_service_registry, ni_global_config, methods, fs, op>>

\* The event loop observes the exit and runs the method's async_completion.
AsyncCompletion(c) ==
    /\ calls[c].stage = "exited"
    /\ calls' = [calls EXCEPT ![c] = ni_objectmodel_extension_completion(calls[c])]
    /\ UNCHANGED <<loaderVars, bindVars, ni_objectmodel_service_registry, ni_global_config, methods, fs, op>>

\* ------------------------------------------------------ specification

InitBind ==
    /\ superclass \in {f \in [Classes -> ClassPtr] : \A c \in Classes : f[c] < c}
    /\ compatible \in [Services -> ClassPtr]
    /\ objClass \in [Objects -> ClassPtr]
    /\ ni_objectmodel_service_registry = <<>>
    /\ ni_objectmodel_class_registry = <<>>
    /\ interfaces = [o \in Objects |-> <<>>]
    /\ binds = 0
    /\ ni_global_config = ni_config_new
    /\ methods = StaticMethods
    /\ calls = [c \in Calls |-> NewCall]
    /\ fs = [p \in Paths |-> NoFile]
    /\ document = NoDocument
    /\ parsed = NotParsed
    /\ capabilities = AllBits
    /\ op = [name |-> "init", object |-> "", rv |-> TRUE]

NextBind ==
    \/ \E s \in Services : ni_objectmodel_register_service(s)
    \/ \E o \in Objects : ni_objectmodel_bind_compatible_interfaces(o)

SpecBind == InitBind /\ [][NextBind]_vars

\* Interface headers and method names a message can carry
Interfaces == {"foo", "qux"}
MethodNames == {"bar", "baz"}

\* -------------------------------------------- configuration documents

Attrs(pairs) == SelectSeq(pairs, LAMBDA pr : pr[2] # NilStr)

\* Children an <extension> element is given in the model
ExtensionChildPool ==
    {XmlNode("pidfile", Attrs(<<<<"path", path>>>>), <<>>) : path \in {NilStr, "/run/x.pid", "%{"}}
    \cup {XmlNode("action", Attrs(<<<<"name", a[1]>>, <<"command", a[2]>>>>), <<>>) :
            a \in {<<NilStr, "cmd">>, <<"bar", NilStr>>, <<"bar", "cmd">>,
                   <<"bar", "%{">>, <<"baz", "cmd">>}}
    \cup {XmlNode("environment", Attrs(<<<<"putenv", e>>>>), <<>>) : e \in {NilStr, "A=1", "%{"}}

SeqsUpTo(S, n) == UNION {[1..k -> S] : k \in 0..n}

\* An <extension> element: with or without name, without type or with a type
\* one of the categories knows
Extension(name, type, kids) ==
    XmlNode("extension", Attrs(<<<<"name", name>>, <<"type", type>>>>), kids)

GoodExtension ==
    XmlNode("extension", <<<<"name", "qux">>, <<"type", "dhcp">>>>,
            <<XmlNode("action", <<<<"name", "baz">>, <<"command", "cmd">>>>, <<>>)>>)

NamelessExtension == XmlNode("extension", <<<<"type", "dhcp">>>>, <<>>)

\* <prefer-server> elements
PreferServerPool ==
    {XmlNode("prefer-server", Attrs(<<<<"ip", s[1]>>, <<"weight", s[2]>>>>), <<>>) :
        s \in {<<NilStr, NilStr>>, <<"bogus", NilStr>>,
               <<"10.0.0.1", NilStr>>, <<"10.0.0.1", "always">>, <<"10.0.0.1", "never">>,
               <<"10.0.0.2", "150">>, <<"10.0.0.2", "50">>, <<"10.0.0.2", "-5">>,
               <<"10.0.0.2", "high">>}}

\* Values of the family attribute
Families ==
    {"ipv4", "ipv6", "ipv4,ipv6", "ipv6,ipv4", "ipv4,ipx", "ipx", ",ipv6", "ipv4,ipv4", ""}

\* Children of an update-target element
UpdateTargetPool ==
    {XmlNode(name, <<>>, <<>>) :
        name \in {"all", "none", "default-route", "hostname", "resolver", "bogus"}}

\* The named targets among them
NamedTargets ==
    {XmlNode(name, <<>>, <<>>) : name \in {"default-route", "hostname", "resolver"}}

\* A document whose <config> element has the three categories with the given children
Document(addrconf, linktype, api) ==
    [readable |-> TRUE,
     root |-> XmlNode("", <<>>,
                <<XmlNode("config", <<>>,
                    <<XmlNode("addrconf", <<>>, addrconf),
                      XmlNode("linktype", <<>>, linktype),
                      XmlNode("api", <<>>, api)>>)>>)]

\* A document with the elements pre and then e in one category
ExtensionDocument(exclass, pre, e) ==
    Document(IF exclass = "addrconf" THEN pre \o <<e>> ELSE <<>>,
             IF exclass = "linktype" THEN pre \o <<e>> ELSE <<>>,
             IF exclass = "api" THEN pre \o <<e>> ELSE <<>>)

\* The configuration files of the model
DocumentRead ==
    \* unreadable, or without <config> element
    \/ document \in {NoDocument,
                     [readable |-> TRUE, root |-> XmlNode("", <<>>, <<XmlNode("other", <<>>, <<>>)>>)]}
    \* one category holds an element with or without name and with up to
    \* MaxChildren children, alone or after a good one
    \/ \E exclass \in {"addrconf", "linktype", "api"}, pre \in {<<>>, <<GoodExtension>>} :
          \E name \in {NilStr, "foo"}, type \in {NilStr, "dhcp", "vlan"} :
             \E kids \in SeqsUpTo(ExtensionChildPool, MaxChildren) :
                document = ExtensionDocument(exclass, pre, Extension(name, type, kids))
    \* one category holds an element with or without family attribute
    \/ \E exclass \in {"addrconf", "linktype", "api"}, pre \in {<<>>, <<GoodExtension>>} :
          \E type \in {"dhcp", "vlan"}, family \in Families \cup {NilStr} :
             document = ExtensionDocument(exclass, pre,
                            XmlNode("extension",
                                    Attrs(<<<<"name", "foo">>, <<"type", type>>,
                                            <<"family", family>>>>), <<>>))
    \* every category empty, good or broken
    \/ \E a, l, p \in {<<>>, <<GoodExtension>>, <<NamelessExtension>>} :
          document = Document(a, l, p)
    \* <default-allow-update> or <dhcp><allow-update> with up to MaxTargets children
    \/ \E kids \in SeqsUpTo(UpdateTargetPool, MaxTargets) :
          \/ document = Document(<<XmlNode("default-allow-update", <<>>, kids)>>, <<>>, <<>>)
          \/ document = Document(<<XmlNode("dhcp", <<>>,
                                     <<XmlNode("allow-update", <<>>, kids)>>)>>, <<>>, <<>>)
    \* <default-allow-update> and <dhcp><allow-update>, each <none/> and two
    \* named targets, in either order
    \/ \E d1, d2, a1, a2 \in NamedTargets :
          LET default == XmlNode("default-allow-update", <<>>,
                                 <<XmlNode("none", <<>>, <<>>), d1, d2>>)
              dhcp == XmlNode("dhcp", <<>>,
                        <<XmlNode("allow-update", <<>>,
                                  <<XmlNode("none", <<>>, <<>>), a1, a2>>)>>)
          IN document \in {Document(<<default, dhcp>>, <<>>, <<>>),
                           Document(<<dhcp, default>>, <<>>, <<>>)}
    \* <dhcp> elements with <prefer-server> children, one more than fit
    \/ \E kids \in SeqsUpTo(PreferServerPool, MaxServerPreferences + 1) :
          document = Document(<<XmlNode("dhcp", <<>>, kids)>>, <<>>, <<>>)

\* ni_system_update_capabilities(): what the system can update
SystemUpdateCapabilities == {{0, 1}, AllBits}

\* The program loads its configuration file.
LoadConfig(caps) ==
    /\ ~parsed.done
    /\ parsed' = [done |-> TRUE] @@ ni_config_parse(document, caps)
    /\ op' = [name |-> "parse", object |-> "", rv |-> TRUE]
    /\ UNCHANGED <<bindVars, ni_objectmodel_service_registry, extVars, document, capabilities>>

\* The addrconf modes a caller asks the update mask for
AddrconfModes == {"NI_ADDRCONF_DHCP", "NI_ADDRCONF_STATIC", "NI_ADDRCONF_AUTOCONF"}

\* A caller asks the loaded configuration for the update mask of a mode.
UpdateMaskQuery(type) ==
    /\ parsed.done /\ parsed.conf # NULL
    /\ op' = [name |-> "update_mask", object |-> type,
              rv |-> ni_config_addrconf_update_mask(parsed.object, type)]
    /\ UNCHANGED <<bindVars, ni_objectmodel_service_registry, extVars, loaderVars>>

InitConfig ==
    /\ superclass = [c \in Classes |-> NULL]
    /\ compatible = [s \in Services |-> NULL]
    /\ objClass = [o \in Objects |-> NULL]
    /\ ni_objectmodel_service_registry = <<>>
    /\ ni_objectmodel_class_registry = <<>>
    /\ interfaces = [o \in Objects |-> <<>>]
    /\ binds = 0
    /\ ni_global_config = ni_config_new
    /\ methods = StaticMethods
    /\ calls = [c \in Calls |-> NewCall]
    /\ fs = [p \in Paths |-> NoFile]
    /\ DocumentRead
    /\ parsed = NotParsed
    /\ capabilities \in SystemUpdateCapabilities
    /\ op = [name |-> "init", object |-> "", rv |-> TRUE]

NextConfig ==
    \/ LoadConfig(capabilities)
    \/ \E type \in AddrconfModes : UpdateMaskQuery(type)

SpecConfig == InitConfig /\ [][NextConfig]_vars

\* ------------------------------------------------- dispatcher runs

\* The configurations the dispatcher runs with: what ni_config_parse returns
\* for documents with one <api> extension.
ApiExtension(name, actions) ==
    XmlNode("extension", <<<<"name", name>>>>,
            [i \in 1..Len(actions) |->
                XmlNode("action", <<<<"name", actions[i]>>, <<"command", "cmd">>>>, <<>>)])

DispatchDocuments ==
    {Document(<<>>, <<>>, <<ApiExtension("foo", <<"bar">>)>>),
     Document(<<>>, <<>>, <<ApiExtension("foo", <<"create", "baz">>)>>),
     Document(<<>>, <<>>, <<ApiExtension("qux", <<"baz">>)>>),
     \* an action with a name and no command
     Document(<<>>, <<>>,
              <<XmlNode("extension", <<<<"name", "foo">>>>,
                        <<XmlNode("action", <<<<"name", "bar">>>>, <<>>)>>)>>)}

DispatchConfigs == {ni_config_parse(d, AllBits).object : d \in DispatchDocuments}

InitCall ==
    /\ superclass = [c \in Classes |-> NULL]
    /\ compatible = [s \in Services |-> NULL]
    /\ objClass = [o \in Objects |-> NULL]
    /\ ni_objectmodel_service_registry = <<"S1", "S2">>
    /\ ni_objectmodel_class_registry = <<>>
    /\ interfaces = [o \in Objects |-> <<>>]
    /\ binds = 0
    /\ ni_global_config \in DispatchConfigs
    /\ methods = StaticMethods
    /\ calls = [c \in Calls |-> NewCall]
    /\ fs = [p \in Paths |-> NoFile]
    /\ document = NoDocument
    /\ parsed = NotParsed
    /\ capabilities = AllBits
    /\ op = [name |-> "init", object |-> "", rv |-> TRUE]

NextCall ==
    \/ ni_objectmodel_bind_extensions
    \/ \E c \in Calls, i \in Interfaces, m \in MethodNames, ans \in Answers :
            HandlerCall(c, i, m, ans)
    \/ \E c \in Calls, s \in Services, ans \in Answers :
            \E k \in 1..Len(methods[s]) : ServerDispatch(c, s, k, ans)
    \/ \E c \in Calls, st \in ExitStatuses : ProcessExit(c, st)
    \/ \E c \in Calls : AsyncCompletion(c)

SpecCall == InitCall /\ [][NextCall]_vars

\* The event loop runs the completion callback of every exited process.
SpecCallFair == SpecCall /\ \A c \in Calls : WF_vars(AsyncCompletion(c))

\* Method tables a service descriptor can start with: every method with or
\* without built-in handler, with or without an async handler of its own.
MethodVariants(name) ==
    {[name |-> name, handler |-> h, async_handler |-> a[1], async_completion |-> a[2]] :
        h \in {"NULL", "builtin"},
        a \in {<<"NULL", "NULL">>, <<"other_call", "other_completion">>}}

MethodTables ==
    {[s \in Services |-> IF s = "S1" THEN <<m1, m2, m3>> ELSE <<m4>>] :
        m1 \in MethodVariants(StaticMethods["S1"][1].name),
        m2 \in MethodVariants(StaticMethods["S1"][2].name),
        m3 \in MethodVariants(StaticMethods["S1"][3].name),
        m4 \in MethodVariants(StaticMethods["S2"][1].name)}

InitExtBind ==
    /\ superclass = [c \in Classes |-> NULL]
    /\ compatible = [s \in Services |-> NULL]
    /\ objClass = [o \in Objects |-> NULL]
    /\ ni_objectmodel_service_registry = <<>>
    /\ ni_objectmodel_class_registry = <<>>
    /\ interfaces = [o \in Objects |-> <<>>]
    /\ binds = 0
    /\ ni_global_config \in DispatchConfigs
    /\ methods \in MethodTables
    /\ calls = [c \in Calls |-> NewCall]
    /\ fs = [p \in Paths |-> NoFile]
    /\ document = NoDocument
    /\ parsed = NotParsed
    /\ capabilities = AllBits
    /\ op = [name |-> "init", object |-> "", rv |-> TRUE]

NextExtBind ==
    \/ \E s \in Services : ni_objectmodel_register_service(s)
    \/ ni_objectmodel_bind_extensions

SpecExtBind == InitExtBind /\ [][NextExtBind]_vars

\* Registrations only
InitRegistry ==
    /\ superclass = [c \in Classes |-> NULL]
    /\ compatible = [s \in Services |-> NULL]
    /\ objClass = [o \in Objects |-> NULL]
    /\ ni_objectmodel_service_registry = <<>>
    /\ ni_objectmodel_class_registry = <<>>
    /\ interfaces = [o \in Objects |-> <<>>]
    /\ binds = 0
    /\ ni_global_config = ni_config_new
    /\ methods = StaticMethods
    /\ calls = [c \in Calls |-> NewCall]
    /\ fs = [p \in Paths |-> NoFile]
    /\ document = NoDocument
    /\ parsed = NotParsed
    /\ capabilities = AllBits
    /\ op = [name |-> "init", object |-> "", rv |-> TRUE]

NextRegistry ==
    \/ \E c \in Classes : ni_objectmodel_register_class(c)
    \/ \E s \in Services : ni_objectmodel_register_service(s)

SpecRegistry == InitRegistry /\ [][NextRegistry]_vars

\* -------------------------------------------------- binder properties

\* The classes reached from class by following superclass links, class included.
AncestorsOrSelf(sup, class) ==
    LET reach[k \in 0..MaxClass] ==
            IF k = 0 THEN {class} \ {NULL}
            ELSE reach[k - 1] \cup ({sup[x] : x \in reach[k - 1]} \ {NULL})
    IN reach[MaxClass]

BindStep(o) == op'.name = "bind" /\ op'.object = o /\ binds' = binds + 1

\* C4: a bind call on an object whose class is C hands a service to the attach
\* operation if and only if the service is registered and its compatible class
\* is C or an ancestor of C; a service compatible with a class outside the
\* chain, or with no class, is not attached.
C4_BindAttachesCompatible ==
    [][\A o \in Objects :
         (BindStep(o) /\ objClass[o] # NULL) =>
            \A s \in Services :
               (Count(interfaces'[o], s) > Count(interfaces[o], s))
               <=> (/\ s \in Range(ni_objectmodel_service_registry)
                    /\ compatible[s] \in AncestorsOrSelf(superclass, objClass[o]))]_vars

\* C4 witness: an object whose class has a grandparent has been bound; a service
\* compatible with the grandparent is attached, a registered service with no
\* compatible class is not.
C4_Witness ==
    \E o \in Objects : \E s, t \in Services :
        /\ op.name = "bind" /\ op.object = o /\ op.rv
        /\ objClass[o] # NULL
        /\ superclass[objClass[o]] # NULL
        /\ superclass[superclass[objClass[o]]] # NULL
        /\ compatible[s] = superclass[superclass[objClass[o]]]
        /\ compatible[t] = NULL
        /\ s \in Range(interfaces[o])
        /\ t \in Range(ni_objectmodel_service_registry)
        /\ t \notin Range(interfaces[o])

\* C5: no service is handed to the attach operation more than once for the
\* same object, whatever registrations and bind calls came before.
C5_AttachedAtMostOnce ==
    \A o \in Objects : \A s \in Services : Count(interfaces[o], s) <= 1

\* C6: an object without class never gets a service attached, and a bind call
\* on it returns FALSE, whatever the registry holds.
C6_NoClassBindFails ==
    \A o \in Objects :
        objClass[o] = NULL =>
            /\ interfaces[o] = <<>>
            /\ (op.name = "bind" /\ op.object = o) => op.rv = FALSE

\* C6 witness: a bind call on a classless object was made while the registry
\* held a service, one of them without compatible class.
C6_Witness ==
    \E o \in Objects : \E s \in Services :
        /\ op.name = "bind" /\ op.object = o
        /\ objClass[o] = NULL
        /\ s \in Range(ni_objectmodel_service_registry)
        /\ compatible[s] = NULL

\* ---------------------------------------------- dispatcher properties

\* The positions of the configured extensions named like the interface
ExtensionsNamed(conf, interface) ==
    {i \in 1..Len(ConfigExtensions(conf)) : ConfigExtensions(conf)[i].name = interface}

\* The interface names a configured extension that has an action named method.
HasAction(conf, interface, method) ==
    /\ ExtensionsNamed(conf, interface) # {}
    /\ LET first == CHOOSE i \in ExtensionsNamed(conf, interface) :
                        \A j \in ExtensionsNamed(conf, interface) : i <= j
       IN \E a \in Range(ConfigExtensions(conf)[first].actions) : a.name = method

Terminated(call) == call.stage \in {"failed", "completed"}

\* C1: a call handed to the extension-call handler gets exactly one reply:
\* none while its process runs, one once it has terminated on any path, and
\* never a second one.
C1_ExactlyOneReply ==
    \A c \in Calls :
        calls[c].via = "extension" =>
            /\ Len(calls[c].replies) <= 1
            /\ Terminated(calls[c]) => Len(calls[c].replies) = 1

\* C1 witness: one call was answered by the completion callback after its
\* process ended, another was answered at dispatch after a failure.
C1_Witness ==
    \E c, d \in Calls :
        /\ calls[c].via = "extension" /\ calls[c].stage = "completed"
        /\ calls[c].launched = 1 /\ Len(calls[c].replies) = 1
        /\ calls[d].via = "extension" /\ calls[d].stage = "failed"
        /\ calls[d].process = "freed" /\ Len(calls[d].replies) = 1

\* C2: once the completion callback has run for a spawned call, neither its
\* argument file nor its return file exists.
C2_TempFilesGoneAfterCompletion ==
    \A c \in Calls :
        (calls[c].via = "extension" /\ calls[c].stage = "completed") =>
            /\ ~fs[calls[c].environ.WICKED_ARGFILE].exists
            /\ ~fs[calls[c].environ.WICKED_RETFILE].exists

\* C3: a successful dispatch has started exactly one process and created
\* exactly two temp files; at launch WICKED_ARGFILE and WICKED_RETFILE name
\* two different existing files, the first holding the marshaled call, the
\* second empty.
C3_LaunchEnvironment ==
    \A c \in Calls :
        (calls[c].via = "extension" /\ calls[c].rv) =>
            LET arg == calls[c].environ.WICKED_ARGFILE
                ret == calls[c].environ.WICKED_RETFILE
            IN /\ calls[c].launched = 1
               /\ Len(calls[c].created) = 2
               /\ arg # NULL /\ ret # NULL /\ arg # ret
               /\ Range(calls[c].created) = {arg, ret}
               /\ calls[c].launchFs[arg] = File(<<c>>)
               /\ calls[c].launchFs[ret] = File(<<>>)

\* C3 witness: a call to a configured action was dispatched and its process runs.
C3_Witness ==
    \E c \in Calls :
        /\ calls[c].via = "extension" /\ calls[c].rv
        /\ calls[c].stage = "spawned"
        /\ HasAction(ni_global_config, calls[c].interface, calls[c].method)

\* C7: the reply of the completion callback is a method return exactly when
\* the process exited with code 0; otherwise it is the error reply with the
\* fixed text.
C7_ReplyFollowsExitStatus ==
    \A c \in Calls :
        (calls[c].via = "extension" /\ calls[c].stage = "completed") =>
            /\ Len(calls[c].replies) >= 1
            /\ LET reply == calls[c].replies[Len(calls[c].replies)]
               IN /\ (reply.type = "method_return") <=> (calls[c].status = "exit0")
                  /\ calls[c].status # "exit0" =>
                        reply = ErrorReply("DBUS_ERROR_FAILED", "dbus extension script returns error")

\* C7 witness: one call completed after exit code 0, another after a failure.
C7_Witness ==
    \E c, d \in Calls :
        /\ calls[c].stage = "completed" /\ calls[c].via = "extension"
        /\ calls[c].status = "exit0"
        /\ calls[d].stage = "completed" /\ calls[d].via = "extension"
        /\ calls[d].status # "exit0"

\* C8: a call whose interface names no configured extension, or whose
\* extension has no action named like the method, and that no built-in handler
\* answers, ends with one immediate error reply, no process and no temp file.
C8_UnresolvedCallFails ==
    \A c \in Calls :
        (/\ calls[c].stage # "idle"
         /\ calls[c].via # "builtin"
         /\ ~HasAction(ni_global_config, calls[c].interface, calls[c].method)) =>
            /\ calls[c].stage = "failed"
            /\ calls[c].rv = FALSE
            /\ Len(calls[c].replies) = 1
            /\ calls[c].replies[1].type = "error"
            /\ calls[c].launched = 0
            /\ calls[c].process = "none"
            /\ calls[c].created = <<>>

\* C8 witness: after bind_extensions, the server dispatched a call to a method
\* without built-in handler and without action, and the handler was given a
\* call with an unknown interface or method.
C8_Witness ==
    \E c, d \in Calls :
        /\ calls[c].via = "nohandler" /\ calls[c].afterBind
        /\ calls[d].via = "extension" /\ calls[d].stage = "failed"
        /\ ~HasAction(ni_global_config, calls[d].interface, calls[d].method)

\* ------------------------------------------ extension binder properties

Bound(m) == [m EXCEPT !.async_handler = AsyncCall, !.async_completion = AsyncCompletionHandler]

\* C9: bind_extensions installs the two async handlers on exactly the methods
\* of registered services that have no built-in handler and a same-named
\* action in the extension named like the service; every other method, and
\* every built-in handler, is left as it was.
C9_BindExtensionsFrame ==
    [][op'.name = "bind_extensions" =>
         \A s \in Services : \A k \in 1..Len(methods[s]) :
            /\ Len(methods'[s]) = Len(methods[s])
            /\ methods'[s][k] =
                 IF /\ s \in Range(ni_objectmodel_service_registry)
                    /\ methods[s][k].handler = "NULL"
                    /\ HasAction(ni_global_config, svcName[s], methods[s][k].name)
                 THEN Bound(methods[s][k])
                 ELSE methods[s][k]]_vars

\* C9 witness: bind_extensions has run; one method got the handlers, a method
\* with a built-in handler and a same-named action kept its table entry, and a
\* method of a service without extension is untouched.
C9_Witness ==
    /\ op.name = "bind_extensions"
    /\ \E s, u \in Range(ni_objectmodel_service_registry) :
        /\ \E k \in 1..Len(methods[s]) :
              /\ methods[s][k].handler = "NULL"
              /\ methods[s][k].async_handler = AsyncCall
        /\ \E k \in 1..Len(methods[s]) :
              /\ methods[s][k].handler = "builtin"
              /\ HasAction(ni_global_config, svcName[s], methods[s][k].name)
              /\ methods[s][k].async_handler # AsyncCall
        /\ ExtensionsNamed(ni_global_config, svcName[u]) = {}
        /\ \A k \in 1..Len(methods[u]) : methods[u][k].async_handler # AsyncCall

\* ------------------------------------- configuration loader properties

\* The children of the first element of that name under <config>
CategoryChildren(doc, exclass) ==
    LET configs == {i \in 1..Len(doc.root.children) : doc.root.children[i].name = "config"}
        config == doc.root.children[CHOOSE i \in configs : \A j \in configs : i <= j]
        cats == {i \in 1..Len(config.children) : config.children[i].name = exclass}
    IN IF configs = {} \/ cats = {} THEN <<>>
       ELSE config.children[CHOOSE i \in cats : \A j \in cats : i <= j].children

\* An <action> or <environment> child the loader rejects
BadExtensionChild(k) ==
    \/ /\ k.name = "action"
       /\ \/ xml_node_get_attr(k, "name") = NilStr
          \/ /\ xml_node_get_attr(k, "command") # NilStr
             /\ ~XPathParses(xml_node_get_attr(k, "command"))
    \/ /\ k.name = "environment"
       /\ ~XPathParses(xml_node_get_attr(k, "putenv"))

\* The first <pidfile> child has a path that does not parse
BadPidfile(e) ==
    LET pids == {i \in 1..Len(e.children) : e.children[i].name = "pidfile"}
        path == xml_node_get_attr(e.children[CHOOSE i \in pids : \A j \in pids : i <= j], "path")
    IN pids # {} /\ path # NilStr /\ ~XPathParses(path)

\* An <extension> element of a category with one of the load errors.  An
\* element whose type the category does not recognize is skipped whole.
BadExtension(exclass, e) ==
    /\ e.name = "extension"
    /\ \/ xml_node_get_attr(e, "name") = NilStr
       \/ exclass # "api" /\ xml_node_get_attr(e, "type") = NilStr
       \/ /\ exclass = "api" \/ MapType(exclass, xml_node_get_attr(e, "type")) >= 0
          /\ BadPidfile(e) \/ \E k \in Range(e.children) : BadExtensionChild(k)

\* The <prefer-server ip=...> elements of all <dhcp> elements, in document order
RECURSIVE PreferServers(_, _)
PreferServers(kids, i) ==
    IF i > Len(kids) THEN <<>>
    ELSE (IF kids[i].name = "dhcp"
          THEN SelectSeq(kids[i].children,
                         LAMBDA k : k.name = "prefer-server" /\ xml_node_get_attr(k, "ip") # NilStr)
          ELSE <<>>) \o PreferServers(kids, i + 1)

\* One of the <prefer-server> elements that fit has an address that does not parse
BadPreferServer(doc) ==
    LET servers == PreferServers(CategoryChildren(doc, "addrconf"), 1)
    IN \E i \in 1..Len(servers) :
          /\ i <= MaxServerPreferences
          /\ ~AddressParses(xml_node_get_attr(servers[i], "ip"))

LoadError(doc) ==
    \/ ~doc.readable
    \/ \A n \in Range(doc.root.children) : n.name # "config"
    \/ BadPreferServer(doc)
    \/ \E exclass \in {"addrconf", "linktype", "api"} :
          \E e \in Range(CategoryChildren(doc, exclass)) : BadExtension(exclass, e)

\* C10: whenever the document has a load error, ni_config_parse returns NULL,
\* and a configuration object it had built by then has been freed.
C10_LoadErrorReturnsNull ==
    (parsed.done /\ LoadError(document)) =>
        /\ parsed.conf = NULL
        /\ parsed.built => parsed.freed

\* C10 witness: a readable document whose <api> category has a broken
\* element after a good one was loaded; the extension list was partly built.
C10_Witness ==
    /\ parsed.done
    /\ parsed.conf = NULL
    /\ \E e \in Range(CategoryChildren(document, "api")) : BadExtension("api", e)
    /\ ~BadPreferServer(document)
    /\ \A exclass \in {"addrconf", "linktype"} :
          \A e \in Range(CategoryChildren(document, exclass)) : ~BadExtension(exclass, e)
    /\ Len(parsed.object.api_extensions) >= 1

\* The weight the configuration format gives a weight attribute
WeightOf(attrval) ==
    CASE attrval = NilStr -> 100
      [] attrval = "always" -> 100
      [] attrval = "never" -> -1
      [] attrval = "150" -> 100

\* The <prefer-server ip=...> elements the loader stored: record i comes from
\* element i
StoredServers == parsed.object.addrconf.dhcp.preferred_server

\* C11: a stored <prefer-server> has weight 100 for weight="always", -1 for
\* weight="never", 100 without weight attribute, and 100 for weight="150".
C11_PreferServerWeight ==
    parsed.done =>
        LET servers == PreferServers(CategoryChildren(document, "addrconf"), 1)
        IN /\ Len(StoredServers) <= Len(servers)
           /\ \A i \in 1..Len(StoredServers) :
                 /\ StoredServers[i].address = xml_node_get_attr(servers[i], "ip")
                 /\ xml_node_get_attr(servers[i], "weight") \in {NilStr, "always", "never", "150"}
                       => StoredServers[i].weight =
                             WeightOf(xml_node_get_attr(servers[i], "weight"))

\* C11 witness: a document was loaded whose stored servers carry the weights
\* of weight="never" and of weight="150".
C11_Witness ==
    /\ parsed.done /\ parsed.conf # NULL
    /\ LET servers == PreferServers(CategoryChildren(document, "addrconf"), 1)
       IN /\ Len(StoredServers) = 2
          /\ xml_node_get_attr(servers[1], "weight") = "never"
          /\ xml_node_get_attr(servers[2], "weight") = "150"
          /\ StoredServers[1].weight = -1
          /\ StoredServers[2].weight = 100

\* The children of all elements of that name among kids, in document order
RECURSIVE ChildrenOf(_, _, _)
ChildrenOf(kids, i, name) ==
    IF i > Len(kids) THEN <<>>
    ELSE (IF kids[i].name = name THEN kids[i].children ELSE <<>>)
         \o ChildrenOf(kids, i + 1, name)

\* Bit b of a mask after the targets were processed in order, start being the
\* mask before: the last <all/> or <none/> decides every bit, a recognized
\* target after it sets its own bit, nothing else changes a bit.
BitAfterTargets(targets, start, b) ==
    LET resets == {i \in 1..Len(targets) : targets[i].name \in {"all", "none"}}
        last == IF resets = {} THEN 0 ELSE CHOOSE i \in resets : \A j \in resets : j <= i
        base == IF last = 0 THEN b \in start ELSE targets[last].name = "all"
    IN base \/ \E i \in (last + 1)..Len(targets) :
                  /\ ni_addrconf_name_to_update_target(targets[i].name) >= 0
                  /\ ni_addrconf_name_to_update_target(targets[i].name) = b

MaskAfterTargets(targets, start) == {b \in AllBits : BitAfterTargets(targets, start, b)}

\* C12: the update-target children are processed in document order: <all/>
\* sets every bit, <none/> clears every bit, a recognized target sets its own
\* bit only, an unrecognized name changes nothing.  The default mask is then
\* intersected with what the system supports.
C12_UpdateTargets ==
    (parsed.done /\ parsed.conf # NULL) =>
        LET addrconf == CategoryChildren(document, "addrconf")
            dhcp == ChildrenOf(ChildrenOf(addrconf, 1, "dhcp"), 1, "allow-update")
            default == ChildrenOf(addrconf, 1, "default-allow-update")
        IN /\ parsed.object.addrconf.dhcp.allow_update
                 = MaskAfterTargets(dhcp, ni_config_new.addrconf.dhcp.allow_update)
           /\ \E caps \in SystemUpdateCapabilities :
                 parsed.object.addrconf.default_allow_update
                    = MaskAfterTargets(default, ni_config_new.addrconf.default_allow_update) \cap caps

\* C12 witness: <none/> followed by two named targets was loaded and the mask
\* has exactly their two bits.
C12_Witness ==
    /\ parsed.done /\ parsed.conf # NULL
    /\ LET dhcp == ChildrenOf(ChildrenOf(CategoryChildren(document, "addrconf"), 1, "dhcp"),
                              1, "allow-update")
       IN /\ Len(dhcp) = 3
          /\ dhcp[1].name = "none"
          /\ dhcp[2].name = "hostname"
          /\ dhcp[3].name = "resolver"
          /\ parsed.object.addrconf.dhcp.allow_update = {1, 2}

\* The extension list of a category
CategoryList(conf, exclass) ==
    CASE exclass = "addrconf" -> conf.addrconf_extensions
      [] exclass = "linktype" -> conf.linktype_extensions
      [] exclass = "api" -> conf.api_extensions

\* The families a family attribute names: every family without attribute,
\* else the recognized tokens of the list
FamiliesNamed(family) ==
    IF family = NilStr THEN AllBits
    ELSE (IF "ipv4" \in Range(StrTok(family)) THEN NI_AF_MASK_IPV4 ELSE {})
         \cup (IF "ipv6" \in Range(StrTok(family)) THEN NI_AF_MASK_IPV6 ELSE {})

\* C13: every extension of a loaded configuration supports every family when
\* its element has no family attribute, and otherwise exactly the families of
\* the recognized tokens of the attribute.
C13_SupportedFamilies ==
    (parsed.done /\ parsed.conf # NULL) =>
        \A exclass \in {"addrconf", "linktype", "api"} :
            \A x \in Range(CategoryList(parsed.object, exclass)) :
                \E e \in Range(CategoryChildren(document, exclass)) :
                    /\ e.name = "extension"
                    /\ xml_node_get_attr(e, "name") = x.name
                    /\ x.supported_af = FamiliesNamed(xml_node_get_attr(e, "family"))

\* C13 witness: a loaded configuration has an extension without family
\* attribute and one whose attribute lists ipv4 and an unrecognized token.
C13_Witness ==
    /\ parsed.done /\ parsed.conf # NULL
    /\ \E exclass \in {"addrconf", "linktype", "api"} :
          /\ \E e \in Range(CategoryChildren(document, exclass)) :
                xml_node_get_attr(e, "family") = "ipv4,ipx"
          /\ \E x, y \in Range(CategoryList(parsed.object, exclass)) :
                /\ x.name = "qux" /\ x.supported_af = AllBits
                /\ y.name = "foo" /\ y.supported_af = NI_AF_MASK_IPV4

\* ------------------------------------------------- registry properties

\* C14: no two entries of the class registry have the same name, and no two
\* entries of the service registry have the same name.
C14_RegistryNamesUnique ==
    /\ \A i, j \in 1..Len(ni_objectmodel_class_registry) :
          className[ni_objectmodel_class_registry[i]] = className[ni_objectmodel_class_registry[j]]
             => i = j
    /\ \A i, j \in 1..Len(ni_objectmodel_service_registry) :
          svcName[ni_objectmodel_service_registry[i]] = svcName[ni_objectmodel_service_registry[j]]
             => i = j

\* ------------------------------------- dispatcher failure properties

GeneralFailureReply == ErrorReply("DBUS_ERROR_FAILED", "general failure when executing method")

\* The handler gave up before the argument file was ready
FailedAtArgument(call) ==
    /\ call.via = "extension" /\ call.stage = "failed" /\ call.process = "freed"
    /\ call.environ.WICKED_ARGFILE = NULL

\* The argument file was written, the return file could not be created
FailedAtReturn(call) ==
    /\ call.via = "extension" /\ call.stage = "failed" /\ call.process = "freed"
    /\ call.environ.WICKED_ARGFILE # NULL
    /\ call.environ.WICKED_RETFILE = NULL

\* Both files were created, the process could not be started
FailedAtLaunch(call) ==
    /\ call.via = "extension" /\ call.stage = "failed" /\ call.process = "freed"
    /\ call.environ.WICKED_ARGFILE # NULL
    /\ call.environ.WICKED_RETFILE # NULL

\* C15: when the return file cannot be created after the argument file was
\* written, the call gets the general-failure reply, no process is started
\* and the argument file is removed.
C15_ReturnFileFailureCleansUp ==
    \A c \in Calls :
        FailedAtReturn(calls[c]) =>
            /\ calls[c].replies = <<GeneralFailureReply>>
            /\ calls[c].launched = 0
            /\ ~fs[calls[c].environ.WICKED_ARGFILE].exists

\* C16: when the process cannot be started after both files were created,
\* the call gets an error reply naming the execution failure, the process
\* instance is released and both files are removed.
C16_LaunchFailureCleansUp ==
    \A c \in Calls :
        FailedAtLaunch(calls[c]) =>
            /\ calls[c].replies = <<ErrorReply("DBUS_ERROR_FAILED", "error executing method")>>
            /\ calls[c].launched = 0
            /\ calls[c].process = "freed"
            /\ ~fs[calls[c].environ.WICKED_ARGFILE].exists
            /\ ~fs[calls[c].environ.WICKED_RETFILE].exists

\* C17: a handler run that fails to marshal the call, or to create or write
\* the argument file, sends the general-failure reply, starts no process,
\* releases the process instance and leaves the temp directory as it found it.
C17_ArgumentFailureCleansUp ==
    [][\A c \in Calls :
         (calls[c].stage = "idle" /\ FailedAtArgument(calls'[c])) =>
            /\ calls'[c].replies = <<GeneralFailureReply>>
            /\ calls'[c].launched = 0
            /\ calls'[c].rv = FALSE
            /\ fs' = fs]_vars

\* C17 witness: a call failed after its argument file was created but not
\* written; another failed before any file was created.
C17_Witness ==
    \E c, d \in Calls :
        /\ FailedAtArgument(calls[c]) /\ Len(calls[c].created) = 1
        /\ ~fs[calls[c].created[1]].exists
        /\ FailedAtArgument(calls[d]) /\ calls[d].created = <<>>

\* The first action named method of the first extension named interface has
\* no command.
CommandlessAction(conf, interface, method) ==
    /\ HasAction(conf, interface, method)
    /\ LET extension == ConfigExtensions(conf)[ni_config_find_extension(conf, interface)]
       IN extension.actions[FirstByName(extension.actions, method)].command = NilStr

\* C18: a call to a method whose action was configured without command ends
\* like a call to an unknown method: one error reply, no process, no temp
\* file, never a method return.
C18_CommandlessActionFails ==
    \A c \in Calls :
        (/\ calls[c].via = "extension"
         /\ CommandlessAction(ni_global_config, calls[c].interface, calls[c].method)) =>
            /\ calls[c].stage = "failed"
            /\ Len(calls[c].replies) = 1
            /\ calls[c].replies[1].type = "error"
            /\ calls[c].launched = 0
            /\ calls[c].created = <<>>

\* The dispatcher state of a call changes only along
\* idle -> failed, idle -> spawned -> exited -> completed
\* (resolving and marshaling happen inside the handler run that leaves idle).
StageOrder(from, to) ==
    \/ from = to
    \/ from = "idle" /\ to \in {"failed", "spawned"}
    \/ from = "spawned" /\ to = "exited"
    \/ from = "exited" /\ to \in {"completed", "failed"}

\* C19: a spawned call has no reply until its process has exited; once the
\* process has exited the completion callback eventually runs and the call
\* ends; the stages of a call are passed in order only.
C19_SpawnedCallCompletes ==
    /\ [](\A c \in Calls :
            (calls[c].via = "extension" /\ calls[c].stage = "spawned") => calls[c].replies = <<>>)
    /\ [][\A c \in Calls :
            calls'[c].via = "extension" => StageOrder(calls[c].stage, calls'[c].stage)]_vars
    /\ \A c \in Calls :
            (calls[c].via = "extension" /\ calls[c].stage = "exited")
                ~> (Terminated(calls[c]) /\ Len(calls[c].replies) = 1)

\* C19 witness: one call has completed after its process exited while
\* another is still spawned and unanswered.
C19_Witness ==
    \E c, d \in Calls :
        /\ calls[c].via = "extension" /\ calls[c].stage = "completed" /\ calls[c].launched = 1
        /\ calls[d].via = "extension" /\ calls[d].stage = "spawned" /\ calls[d].replies = <<>>

\* The call's process has been started and its reply is pending
InFlight(call) == call.via = "extension" /\ call.stage \in {"spawned", "exited"}

TempFiles(call) == {call.environ.WICKED_ARGFILE, call.environ.WICKED_RETFILE}

\* C20: calls in flight at the same time share no temp file, and the
\* completion of one call answers that call only, by its own exit status,
\* and leaves every other call and every file as they were.
C20_CallsAreIndependent ==
    /\ [](\A c, d \in Calls :
            (c # d /\ InFlight(calls[c]) /\ InFlight(calls[d])) =>
                TempFiles(calls[c]) \cap TempFiles(calls[d]) = {})
    /\ [][\A c \in Calls :
            (calls[c].stage = "exited" /\ calls'[c].stage = "completed") =>
                /\ \A d \in Calls \ {c} : calls'[d] = calls[d]
                /\ fs' = fs
                /\ calls'[c].replies =
                      Append(calls[c].replies,
                             IF calls[c].status = "exit0" THEN MethodReturn
                             ELSE ErrorReply("DBUS_ERROR_FAILED",
                                             "dbus extension script returns error"))]_vars

\* C20 witness: a second call to the same method was started while the first
\* was in flight (the first call's files were there at the second launch);
\* the second has completed with an error and the first is still running,
\* unanswered, with its files in place.
C20_Witness ==
    \E c, d \in Calls :
        /\ c # d
        /\ calls[c].interface = calls[d].interface /\ calls[c].method = calls[d].method
        /\ calls[c].via = "extension" /\ calls[c].stage = "spawned" /\ calls[c].replies = <<>>
        /\ calls[d].via = "extension" /\ calls[d].stage = "completed" /\ calls[d].status = "exit1"
        /\ \A p \in TempFiles(calls[c]) : calls[d].launchFs[p].exists /\ fs[p].exists
        /\ TempFiles(calls[c]) \cap TempFiles(calls[d]) = {}

\* ------------------------------------------ binder run twice

\* The three handler fields of every method of a method table
Handlers(mt) ==
    [s \in Services |->
        [k \in 1..Len(mt[s]) |->
            <<mt[s][k].handler, mt[s][k].async_handler, mt[s][k].async_completion>>]]

\* The method tables after one more run of ni_objectmodel_bind_extensions
BoundOnce(mt) ==
    BindExtensionsLoop(1, ni_objectmodel_service_registry, ni_global_config, mt)

\* C21: bind_extensions is idempotent: from every registry, configuration
\* and method table, a second run on the same registry and configuration
\* leaves every method's built-in handler, async handler and async
\* completion handler as the first run left them, and a run that follows a
\* run changes no method table.
C21_BindExtensionsIdempotent ==
    /\ [](Handlers(BoundOnce(BoundOnce(methods))) = Handlers(BoundOnce(methods)))
    /\ [][(op.name = "bind_extensions" /\ op'.name = "bind_extensions") =>
            methods' = methods]_vars

\* C21 witness: bind_extensions has run over a registry holding both
\* services; it has installed the async handlers on a
\* method that had handlers of its own, has left the handlers of a method
\* with a built-in handler alone, and another run is possible.
C21_Witness ==
    /\ op.name = "bind_extensions"
    /\ Range(ni_objectmodel_service_registry) = Services
    /\ \E s \in Services :
          /\ \E k \in 1..Len(methods[s]) :
                /\ methods[s][k].handler = "NULL"
                /\ methods[s][k].async_handler = AsyncCall
                /\ methods[s][k].async_completion = AsyncCompletionHandler
          /\ \E k \in 1..Len(methods[s]) :
                /\ methods[s][k].handler = "builtin"
                /\ methods[s][k].async_handler = "other_call"
                /\ HasAction(ni_global_config, svcName[s], methods[s][k].name)
    /\ ENABLED ni_objectmodel_bind_extensions

\* ------------------------------------------ server preference range

\* The weights the configuration format allows: exclude, or 0 to 100
ValidWeights == {-1} \cup 0..100

\* C22: every stored server preference has weight -1 or a weight from 0 to
\* 100, whatever the weight attribute says, and no more preferences are
\* stored than the table holds.
C22_WeightsInRange ==
    parsed.done =>
        /\ \A i \in 1..Len(StoredServers) : StoredServers[i].weight \in ValidWeights
        /\ Len(StoredServers) <= MaxServerPreferences
        /\ parsed.object.addrconf.dhcp.num_preferred_servers <= MaxServerPreferences

\* ------------------------------------------ effective update mask

\* C23: after a successful load the default mask has no bit outside the
\* system's update capabilities, and the update mask a caller is given has no
\* bit outside the default mask: for the DHCP mode it is exactly the bits
\* that the default mask and the DHCP allow_update mask share, for every
\* other mode it is exactly the default mask.
C23_UpdateMaskWithinDefault ==
    (parsed.done /\ parsed.conf # NULL) =>
        LET default == parsed.object.addrconf.default_allow_update
            dhcp == parsed.object.addrconf.dhcp.allow_update
        IN /\ default \subseteq capabilities
           /\ op.name = "update_mask" =>
                 /\ op.rv \subseteq default
                 /\ op.rv = IF op.object = "NI_ADDRCONF_DHCP"
                             THEN {b \in AllBits : b \in default /\ b \in dhcp}
                             ELSE default

\* C23 witness: on a system that cannot update everything, a file that names
\* two bits for each mask was loaded; the default mask lost a named bit to
\* the capabilities, the DHCP mask has a bit outside the default mask, and
\* the caller asking for the DHCP mode was given the non-empty mask of the
\* bits both share, which is not the DHCP mask.
C23_Witness ==
    /\ parsed.done /\ parsed.conf # NULL
    /\ capabilities # AllBits
    /\ op.name = "update_mask" /\ op.object = "NI_ADDRCONF_DHCP"
    /\ LET addrconf == CategoryChildren(document, "addrconf")
           default == parsed.object.addrconf.default_allow_update
           dhcp == parsed.object.addrconf.dhcp.allow_update
           named == MaskAfterTargets(ChildrenOf(addrconf, 1, "default-allow-update"), AllBits)
       IN /\ Cardinality(named) = 2
          /\ Cardinality(dhcp) = 2
          /\ default # named
          /\ dhcp \ default # {}
          /\ op.rv # {} /\ op.rv # dhcp

====
